---- MODULE Spec2Model ----
(***************************************************************************)
(* Email spam classifier: the text normaliser (preprocessor.py), the       *)
(* prediction service with its lazily loaded artifact (model.py) and the   *)
(* POST /predict handler (app.py).                                         *)
(*                                                                         *)
(* A text is a sequence of Unicode code points (0 .. 1114111), so that the  *)
(* regular expressions of the source are modelled character by character. *)
(***************************************************************************)
EXTENDS Naturals, Integers, Sequences, FiniteSets, TLC

VARIABLES
    cfg,     \* EmailPreprocessor: the six toggles set by __init__
    text,    \* the text handed to transform / _strip_headers
    hdr,     \* result of _strip_headers(text)
    out1,    \* transform([text])[0]
    out2,    \* transform([out1])[0]
    npc,     \* position of the normaliser's caller
    _model,          \* model.py: the cached artifact, NoModel for None
    _model_loaded,   \* model.py: the "already tried" flag
    th,              \* per request thread: position, locals and response
    loads,           \* number of joblib.load calls executed so far
    failed,          \* a load has failed (file missing or joblib.load raised)
    budget,          \* requests the clients may still send
    stdout           \* the encoding of sys.stdout while requests are served

nvars == <<cfg, text, hdr, out1, out2, npc>>
svars == <<_model, _model_loaded, th, loads, failed, budget, stdout>>
vars == <<cfg, text, hdr, out1, out2, npc,
          _model, _model_loaded, th, loads, failed, budget, stdout>>

(***************************************************************************)
(* Bounds                                                                  *)
(***************************************************************************)
MaxChunks == 3     \* an input of transform is at most this many chunks
MaxHdrLen == 5     \* an input of _strip_headers is at most this many characters
NumThreads == 2    \* request threads of the server
MaxRequests == 3   \* requests sent in one behaviour of the concurrent service
MaxWords == 4      \* an email_text of the HTTP clients is at most this many words

(***************************************************************************)
(* Characters: code points.  The literals of the source are written as     *)
(* characters and converted by ord.                                        *)
(***************************************************************************)
Range(s) == {s[i] : i \in 1..Len(s)}

\* the printable ASCII characters in code point order, from 32 on, without
\* the grave accent (96), which no literal of the source holds
Ascii ==
    <<
    " ", "!", "\"", "#", "$", "%", "&", "'", "(", ")", "*", "+", ",", "-",
    ".", "/", "0", "1", "2", "3", "4", "5", "6", "7", "8", "9", ":", ";",
    "<", "=", ">", "?", "@", "A", "B", "C", "D", "E", "F", "G", "H", "I",
    "J", "K", "L", "M", "N", "O", "P", "Q", "R", "S", "T", "U", "V", "W",
    "X", "Y", "Z", "[", "\\", "]", "^", "_", "a", "b", "c", "d", "e", "f",
    "g", "h", "i", "j", "k", "l", "m", "n", "o", "p", "q", "r", "s", "t",
    "u", "v", "w", "x", "y", "z", "{", "|", "}", "~"
    >>

OrdTable ==
    [ch \in Range(Ascii) |->
        LET i == CHOOSE k \in 1..Len(Ascii) : Ascii[k] = ch
        IN IF i <= 64 THEN 31 + i ELSE 32 + i]

\* ord(ch) for the characters of the literals
ord(ch) ==
    IF ch = "\t" THEN 9
    ELSE IF ch = "\n" THEN 10
    ELSE IF ch = "\r" THEN 13
    ELSE OrdTable[ch]

\* the text of a literal written as a tuple of characters
Str(s) == [i \in 1..Len(s) |-> ord(s[i])]

LF == 10       \* '\n'
CR == 13       \* '\r'
SPACE == 32    \* ' '

(***************************************************************************)
(* Character classes of Python's re module on str patterns and the case    *)
(* mapping of str.lower(), as tables of code point ranges in ascending     *)
(* order (Unicode 14.0.0, the character database of Python 3.11).          *)
(***************************************************************************)
\* \s, str.isspace(): the whitespace of re, str.strip and str.split
SpaceRanges ==
    <<
    <<9, 13>>, <<28, 32>>, <<133, 133>>, <<160, 160>>, <<5760, 5760>>,
    <<8192, 8202>>, <<8232, 8233>>, <<8239, 8239>>, <<8287, 8287>>,
    <<12288, 12288>>
    >>

\* \d: the decimal digits (category Nd)
DigitRanges ==
    <<
    <<48, 57>>, <<1632, 1641>>, <<1776, 1785>>, <<1984, 1993>>,
    <<2406, 2415>>, <<2534, 2543>>, <<2662, 2671>>, <<2790, 2799>>,
    <<2918, 2927>>, <<3046, 3055>>, <<3174, 3183>>, <<3302, 3311>>,
    <<3430, 3439>>, <<3558, 3567>>, <<3664, 3673>>, <<3792, 3801>>,
    <<3872, 3881>>, <<4160, 4169>>, <<4240, 4249>>, <<6112, 6121>>,
    <<6160, 6169>>, <<6470, 6479>>, <<6608, 6617>>, <<6784, 6793>>,
    <<6800, 6809>>, <<6992, 7001>>, <<7088, 7097>>, <<7232, 7241>>,
    <<7248, 7257>>, <<42528, 42537>>, <<43216, 43225>>, <<43264, 43273>>,
    <<43472, 43481>>, <<43504, 43513>>, <<43600, 43609>>, <<44016, 44025>>,
    <<65296, 65305>>, <<66720, 66729>>, <<68912, 68921>>, <<69734, 69743>>,
    <<69872, 69881>>, <<69942, 69951>>, <<70096, 70105>>, <<70384, 70393>>,
    <<70736, 70745>>, <<70864, 70873>>, <<71248, 71257>>, <<71360, 71369>>,
    <<71472, 71481>>, <<71904, 71913>>, <<72016, 72025>>, <<72784, 72793>>,
    <<73040, 73049>>, <<73120, 73129>>, <<92768, 92777>>, <<92864, 92873>>,
    <<93008, 93017>>, <<120782, 120831>>, <<123200, 123209>>,
    <<123632, 123641>>, <<125264, 125273>>, <<130032, 130041>>
    >>

\* \w: the alphanumeric characters (str.isalnum()) and the underscore
WordRanges ==
    <<
    <<48, 57>>, <<65, 90>>, <<95, 95>>, <<97, 122>>, <<170, 170>>,
    <<178, 179>>, <<181, 181>>, <<185, 186>>, <<188, 190>>, <<192, 214>>,
    <<216, 246>>, <<248, 705>>, <<710, 721>>, <<736, 740>>, <<748, 748>>,
    <<750, 750>>, <<880, 884>>, <<886, 887>>, <<890, 893>>, <<895, 895>>,
    <<902, 902>>, <<904, 906>>, <<908, 908>>, <<910, 929>>, <<931, 1013>>,
    <<1015, 1153>>, <<1162, 1327>>, <<1329, 1366>>, <<1369, 1369>>,
    <<1376, 1416>>, <<1488, 1514>>, <<1519, 1522>>, <<1568, 1610>>,
    <<1632, 1641>>, <<1646, 1647>>, <<1649, 1747>>, <<1749, 1749>>,
    <<1765, 1766>>, <<1774, 1788>>, <<1791, 1791>>, <<1808, 1808>>,
    <<1810, 1839>>, <<1869, 1957>>, <<1969, 1969>>, <<1984, 2026>>,
    <<2036, 2037>>, <<2042, 2042>>, <<2048, 2069>>, <<2074, 2074>>,
    <<2084, 2084>>, <<2088, 2088>>, <<2112, 2136>>, <<2144, 2154>>,
    <<2160, 2183>>, <<2185, 2190>>, <<2208, 2249>>, <<2308, 2361>>,
    <<2365, 2365>>, <<2384, 2384>>, <<2392, 2401>>, <<2406, 2415>>,
    <<2417, 2432>>, <<2437, 2444>>, <<2447, 2448>>, <<2451, 2472>>,
    <<2474, 2480>>, <<2482, 2482>>, <<2486, 2489>>, <<2493, 2493>>,
    <<2510, 2510>>, <<2524, 2525>>, <<2527, 2529>>, <<2534, 2545>>,
    <<2548, 2553>>, <<2556, 2556>>, <<2565, 2570>>, <<2575, 2576>>,
    <<2579, 2600>>, <<2602, 2608>>, <<2610, 2611>>, <<2613, 2614>>,
    <<2616, 2617>>, <<2649, 2652>>, <<2654, 2654>>, <<2662, 2671>>,
    <<2674, 2676>>, <<2693, 2701>>, <<2703, 2705>>, <<2707, 2728>>,
    <<2730, 2736>>, <<2738, 2739>>, <<2741, 2745>>, <<2749, 2749>>,
    <<2768, 2768>>, <<2784, 2785>>, <<2790, 2799>>, <<2809, 2809>>,
    <<2821, 2828>>, <<2831, 2832>>, <<2835, 2856>>, <<2858, 2864>>,
    <<2866, 2867>>, <<2869, 2873>>, <<2877, 2877>>, <<2908, 2909>>,
    <<2911, 2913>>, <<2918, 2927>>, <<2929, 2935>>, <<2947, 2947>>,
    <<2949, 2954>>, <<2958, 2960>>, <<2962, 2965>>, <<2969, 2970>>,
    <<2972, 2972>>, <<2974, 2975>>, <<2979, 2980>>, <<2984, 2986>>,
    <<2990, 3001>>, <<3024, 3024>>, <<3046, 3058>>, <<3077, 3084>>,
    <<3086, 3088>>, <<3090, 3112>>, <<3114, 3129>>, <<3133, 3133>>,
    <<3160, 3162>>, <<3165, 3165>>, <<3168, 3169>>, <<3174, 3183>>,
    <<3192, 3198>>, <<3200, 3200>>, <<3205, 3212>>, <<3214, 3216>>,
    <<3218, 3240>>, <<3242, 3251>>, <<3253, 3257>>, <<3261, 3261>>,
    <<3293, 3294>>, <<3296, 3297>>, <<3302, 3311>>, <<3313, 3314>>,
    <<3332, 3340>>, <<3342, 3344>>, <<3346, 3386>>, <<3389, 3389>>,
    <<3406, 3406>>, <<3412, 3414>>, <<3416, 3425>>, <<3430, 3448>>,
    <<3450, 3455>>, <<3461, 3478>>, <<3482, 3505>>, <<3507, 3515>>,
    <<3517, 3517>>, <<3520, 3526>>, <<3558, 3567>>, <<3585, 3632>>,
    <<3634, 3635>>, <<3648, 3654>>, <<3664, 3673>>, <<3713, 3714>>,
    <<3716, 3716>>, <<3718, 3722>>, <<3724, 3747>>, <<3749, 3749>>,
    <<3751, 3760>>, <<3762, 3763>>, <<3773, 3773>>, <<3776, 3780>>,
    <<3782, 3782>>, <<3792, 3801>>, <<3804, 3807>>, <<3840, 3840>>,
    <<3872, 3891>>, <<3904, 3911>>, <<3913, 3948>>, <<3976, 3980>>,
    <<4096, 4138>>, <<4159, 4169>>, <<4176, 4181>>, <<4186, 4189>>,
    <<4193, 4193>>, <<4197, 4198>>, <<4206, 4208>>, <<4213, 4225>>,
    <<4238, 4238>>, <<4240, 4249>>, <<4256, 4293>>, <<4295, 4295>>,
    <<4301, 4301>>, <<4304, 4346>>, <<4348, 4680>>, <<4682, 4685>>,
    <<4688, 4694>>, <<4696, 4696>>, <<4698, 4701>>, <<4704, 4744>>,
    <<4746, 4749>>, <<4752, 4784>>, <<4786, 4789>>, <<4792, 4798>>,
    <<4800, 4800>>, <<4802, 4805>>, <<4808, 4822>>, <<4824, 4880>>,
    <<4882, 4885>>, <<4888, 4954>>, <<4969, 4988>>, <<4992, 5007>>,
    <<5024, 5109>>, <<5112, 5117>>, <<5121, 5740>>, <<5743, 5759>>,
    <<5761, 5786>>, <<5792, 5866>>, <<5870, 5880>>, <<5888, 5905>>,
    <<5919, 5937>>, <<5952, 5969>>, <<5984, 5996>>, <<5998, 6000>>,
    <<6016, 6067>>, <<6103, 6103>>, <<6108, 6108>>, <<6112, 6121>>,
    <<6128, 6137>>, <<6160, 6169>>, <<6176, 6264>>, <<6272, 6276>>,
    <<6279, 6312>>, <<6314, 6314>>, <<6320, 6389>>, <<6400, 6430>>,
    <<6470, 6509>>, <<6512, 6516>>, <<6528, 6571>>, <<6576, 6601>>,
    <<6608, 6618>>, <<6656, 6678>>, <<6688, 6740>>, <<6784, 6793>>,
    <<6800, 6809>>, <<6823, 6823>>, <<6917, 6963>>, <<6981, 6988>>,
    <<6992, 7001>>, <<7043, 7072>>, <<7086, 7141>>, <<7168, 7203>>,
    <<7232, 7241>>, <<7245, 7293>>, <<7296, 7304>>, <<7312, 7354>>,
    <<7357, 7359>>, <<7401, 7404>>, <<7406, 7411>>, <<7413, 7414>>,
    <<7418, 7418>>, <<7424, 7615>>, <<7680, 7957>>, <<7960, 7965>>,
    <<7968, 8005>>, <<8008, 8013>>, <<8016, 8023>>, <<8025, 8025>>,
    <<8027, 8027>>, <<8029, 8029>>, <<8031, 8061>>, <<8064, 8116>>,
    <<8118, 8124>>, <<8126, 8126>>, <<8130, 8132>>, <<8134, 8140>>,
    <<8144, 8147>>, <<8150, 8155>>, <<8160, 8172>>, <<8178, 8180>>,
    <<8182, 8188>>, <<8304, 8305>>, <<8308, 8313>>, <<8319, 8329>>,
    <<8336, 8348>>, <<8450, 8450>>, <<8455, 8455>>, <<8458, 8467>>,
    <<8469, 8469>>, <<8473, 8477>>, <<8484, 8484>>, <<8486, 8486>>,
    <<8488, 8488>>, <<8490, 8493>>, <<8495, 8505>>, <<8508, 8511>>,
    <<8517, 8521>>, <<8526, 8526>>, <<8528, 8585>>, <<9312, 9371>>,
    <<9450, 9471>>, <<10102, 10131>>, <<11264, 11492>>, <<11499, 11502>>,
    <<11506, 11507>>, <<11517, 11517>>, <<11520, 11557>>, <<11559, 11559>>,
    <<11565, 11565>>, <<11568, 11623>>, <<11631, 11631>>, <<11648, 11670>>,
    <<11680, 11686>>, <<11688, 11694>>, <<11696, 11702>>, <<11704, 11710>>,
    <<11712, 11718>>, <<11720, 11726>>, <<11728, 11734>>, <<11736, 11742>>,
    <<11823, 11823>>, <<12293, 12295>>, <<12321, 12329>>, <<12337, 12341>>,
    <<12344, 12348>>, <<12353, 12438>>, <<12445, 12447>>, <<12449, 12538>>,
    <<12540, 12543>>, <<12549, 12591>>, <<12593, 12686>>, <<12690, 12693>>,
    <<12704, 12735>>, <<12784, 12799>>, <<12832, 12841>>, <<12872, 12879>>,
    <<12881, 12895>>, <<12928, 12937>>, <<12977, 12991>>, <<13312, 19903>>,
    <<19968, 42124>>, <<42192, 42237>>, <<42240, 42508>>, <<42512, 42539>>,
    <<42560, 42606>>, <<42623, 42653>>, <<42656, 42735>>, <<42775, 42783>>,
    <<42786, 42888>>, <<42891, 42954>>, <<42960, 42961>>, <<42963, 42963>>,
    <<42965, 42969>>, <<42994, 43009>>, <<43011, 43013>>, <<43015, 43018>>,
    <<43020, 43042>>, <<43056, 43061>>, <<43072, 43123>>, <<43138, 43187>>,
    <<43216, 43225>>, <<43250, 43255>>, <<43259, 43259>>, <<43261, 43262>>,
    <<43264, 43301>>, <<43312, 43334>>, <<43360, 43388>>, <<43396, 43442>>,
    <<43471, 43481>>, <<43488, 43492>>, <<43494, 43518>>, <<43520, 43560>>,
    <<43584, 43586>>, <<43588, 43595>>, <<43600, 43609>>, <<43616, 43638>>,
    <<43642, 43642>>, <<43646, 43695>>, <<43697, 43697>>, <<43701, 43702>>,
    <<43705, 43709>>, <<43712, 43712>>, <<43714, 43714>>, <<43739, 43741>>,
    <<43744, 43754>>, <<43762, 43764>>, <<43777, 43782>>, <<43785, 43790>>,
    <<43793, 43798>>, <<43808, 43814>>, <<43816, 43822>>, <<43824, 43866>>,
    <<43868, 43881>>, <<43888, 44002>>, <<44016, 44025>>, <<44032, 55203>>,
    <<55216, 55238>>, <<55243, 55291>>, <<63744, 64109>>, <<64112, 64217>>,
    <<64256, 64262>>, <<64275, 64279>>, <<64285, 64285>>, <<64287, 64296>>,
    <<64298, 64310>>, <<64312, 64316>>, <<64318, 64318>>, <<64320, 64321>>,
    <<64323, 64324>>, <<64326, 64433>>, <<64467, 64829>>, <<64848, 64911>>,
    <<64914, 64967>>, <<65008, 65019>>, <<65136, 65140>>, <<65142, 65276>>,
    <<65296, 65305>>, <<65313, 65338>>, <<65345, 65370>>, <<65382, 65470>>,
    <<65474, 65479>>, <<65482, 65487>>, <<65490, 65495>>, <<65498, 65500>>,
    <<65536, 65547>>, <<65549, 65574>>, <<65576, 65594>>, <<65596, 65597>>,
    <<65599, 65613>>, <<65616, 65629>>, <<65664, 65786>>, <<65799, 65843>>,
    <<65856, 65912>>, <<65930, 65931>>, <<66176, 66204>>, <<66208, 66256>>,
    <<66273, 66299>>, <<66304, 66339>>, <<66349, 66378>>, <<66384, 66421>>,
    <<66432, 66461>>, <<66464, 66499>>, <<66504, 66511>>, <<66513, 66517>>,
    <<66560, 66717>>, <<66720, 66729>>, <<66736, 66771>>, <<66776, 66811>>,
    <<66816, 66855>>, <<66864, 66915>>, <<66928, 66938>>, <<66940, 66954>>,
    <<66956, 66962>>, <<66964, 66965>>, <<66967, 66977>>, <<66979, 66993>>,
    <<66995, 67001>>, <<67003, 67004>>, <<67072, 67382>>, <<67392, 67413>>,
    <<67424, 67431>>, <<67456, 67461>>, <<67463, 67504>>, <<67506, 67514>>,
    <<67584, 67589>>, <<67592, 67592>>, <<67594, 67637>>, <<67639, 67640>>,
    <<67644, 67644>>, <<67647, 67669>>, <<67672, 67702>>, <<67705, 67742>>,
    <<67751, 67759>>, <<67808, 67826>>, <<67828, 67829>>, <<67835, 67867>>,
    <<67872, 67897>>, <<67968, 68023>>, <<68028, 68047>>, <<68050, 68096>>,
    <<68112, 68115>>, <<68117, 68119>>, <<68121, 68149>>, <<68160, 68168>>,
    <<68192, 68222>>, <<68224, 68255>>, <<68288, 68295>>, <<68297, 68324>>,
    <<68331, 68335>>, <<68352, 68405>>, <<68416, 68437>>, <<68440, 68466>>,
    <<68472, 68497>>, <<68521, 68527>>, <<68608, 68680>>, <<68736, 68786>>,
    <<68800, 68850>>, <<68858, 68899>>, <<68912, 68921>>, <<69216, 69246>>,
    <<69248, 69289>>, <<69296, 69297>>, <<69376, 69415>>, <<69424, 69445>>,
    <<69457, 69460>>, <<69488, 69505>>, <<69552, 69579>>, <<69600, 69622>>,
    <<69635, 69687>>, <<69714, 69743>>, <<69745, 69746>>, <<69749, 69749>>,
    <<69763, 69807>>, <<69840, 69864>>, <<69872, 69881>>, <<69891, 69926>>,
    <<69942, 69951>>, <<69956, 69956>>, <<69959, 69959>>, <<69968, 70002>>,
    <<70006, 70006>>, <<70019, 70066>>, <<70081, 70084>>, <<70096, 70106>>,
    <<70108, 70108>>, <<70113, 70132>>, <<70144, 70161>>, <<70163, 70187>>,
    <<70272, 70278>>, <<70280, 70280>>, <<70282, 70285>>, <<70287, 70301>>,
    <<70303, 70312>>, <<70320, 70366>>, <<70384, 70393>>, <<70405, 70412>>,
    <<70415, 70416>>, <<70419, 70440>>, <<70442, 70448>>, <<70450, 70451>>,
    <<70453, 70457>>, <<70461, 70461>>, <<70480, 70480>>, <<70493, 70497>>,
    <<70656, 70708>>, <<70727, 70730>>, <<70736, 70745>>, <<70751, 70753>>,
    <<70784, 70831>>, <<70852, 70853>>, <<70855, 70855>>, <<70864, 70873>>,
    <<71040, 71086>>, <<71128, 71131>>, <<71168, 71215>>, <<71236, 71236>>,
    <<71248, 71257>>, <<71296, 71338>>, <<71352, 71352>>, <<71360, 71369>>,
    <<71424, 71450>>, <<71472, 71483>>, <<71488, 71494>>, <<71680, 71723>>,
    <<71840, 71922>>, <<71935, 71942>>, <<71945, 71945>>, <<71948, 71955>>,
    <<71957, 71958>>, <<71960, 71983>>, <<71999, 71999>>, <<72001, 72001>>,
    <<72016, 72025>>, <<72096, 72103>>, <<72106, 72144>>, <<72161, 72161>>,
    <<72163, 72163>>, <<72192, 72192>>, <<72203, 72242>>, <<72250, 72250>>,
    <<72272, 72272>>, <<72284, 72329>>, <<72349, 72349>>, <<72368, 72440>>,
    <<72704, 72712>>, <<72714, 72750>>, <<72768, 72768>>, <<72784, 72812>>,
    <<72818, 72847>>, <<72960, 72966>>, <<72968, 72969>>, <<72971, 73008>>,
    <<73030, 73030>>, <<73040, 73049>>, <<73056, 73061>>, <<73063, 73064>>,
    <<73066, 73097>>, <<73112, 73112>>, <<73120, 73129>>, <<73440, 73458>>,
    <<73648, 73648>>, <<73664, 73684>>, <<73728, 74649>>, <<74752, 74862>>,
    <<74880, 75075>>, <<77712, 77808>>, <<77824, 78894>>, <<82944, 83526>>,
    <<92160, 92728>>, <<92736, 92766>>, <<92768, 92777>>, <<92784, 92862>>,
    <<92864, 92873>>, <<92880, 92909>>, <<92928, 92975>>, <<92992, 92995>>,
    <<93008, 93017>>, <<93019, 93025>>, <<93027, 93047>>, <<93053, 93071>>,
    <<93760, 93846>>, <<93952, 94026>>, <<94032, 94032>>, <<94099, 94111>>,
    <<94176, 94177>>, <<94179, 94179>>, <<94208, 100343>>,
    <<100352, 101589>>, <<101632, 101640>>, <<110576, 110579>>,
    <<110581, 110587>>, <<110589, 110590>>, <<110592, 110882>>,
    <<110928, 110930>>, <<110948, 110951>>, <<110960, 111355>>,
    <<113664, 113770>>, <<113776, 113788>>, <<113792, 113800>>,
    <<113808, 113817>>, <<119520, 119539>>, <<119648, 119672>>,
    <<119808, 119892>>, <<119894, 119964>>, <<119966, 119967>>,
    <<119970, 119970>>, <<119973, 119974>>, <<119977, 119980>>,
    <<119982, 119993>>, <<119995, 119995>>, <<119997, 120003>>,
    <<120005, 120069>>, <<120071, 120074>>, <<120077, 120084>>,
    <<120086, 120092>>, <<120094, 120121>>, <<120123, 120126>>,
    <<120128, 120132>>, <<120134, 120134>>, <<120138, 120144>>,
    <<120146, 120485>>, <<120488, 120512>>, <<120514, 120538>>,
    <<120540, 120570>>, <<120572, 120596>>, <<120598, 120628>>,
    <<120630, 120654>>, <<120656, 120686>>, <<120688, 120712>>,
    <<120714, 120744>>, <<120746, 120770>>, <<120772, 120779>>,
    <<120782, 120831>>, <<122624, 122654>>, <<123136, 123180>>,
    <<123191, 123197>>, <<123200, 123209>>, <<123214, 123214>>,
    <<123536, 123565>>, <<123584, 123627>>, <<123632, 123641>>,
    <<124896, 124902>>, <<124904, 124907>>, <<124909, 124910>>,
    <<124912, 124926>>, <<124928, 125124>>, <<125127, 125135>>,
    <<125184, 125251>>, <<125259, 125259>>, <<125264, 125273>>,
    <<126065, 126123>>, <<126125, 126127>>, <<126129, 126132>>,
    <<126209, 126253>>, <<126255, 126269>>, <<126464, 126467>>,
    <<126469, 126495>>, <<126497, 126498>>, <<126500, 126500>>,
    <<126503, 126503>>, <<126505, 126514>>, <<126516, 126519>>,
    <<126521, 126521>>, <<126523, 126523>>, <<126530, 126530>>,
    <<126535, 126535>>, <<126537, 126537>>, <<126539, 126539>>,
    <<126541, 126543>>, <<126545, 126546>>, <<126548, 126548>>,
    <<126551, 126551>>, <<126553, 126553>>, <<126555, 126555>>,
    <<126557, 126557>>, <<126559, 126559>>, <<126561, 126562>>,
    <<126564, 126564>>, <<126567, 126570>>, <<126572, 126578>>,
    <<126580, 126583>>, <<126585, 126588>>, <<126590, 126590>>,
    <<126592, 126601>>, <<126603, 126619>>, <<126625, 126627>>,
    <<126629, 126633>>, <<126635, 126651>>, <<127232, 127244>>,
    <<130032, 130041>>, <<131072, 173791>>, <<173824, 177976>>,
    <<177984, 178205>>, <<178208, 183969>>, <<183984, 191456>>,
    <<194560, 195101>>, <<196608, 201546>>
    >>

\* str.lower(): <<first, last, step, offset>>: every step-th code point from
\* first to last is mapped to itself plus offset; all others but 304 and
\* 931 are left alone
LowerTable ==
    <<
    <<65, 90, 1, 32>>, <<192, 214, 1, 32>>, <<216, 222, 1, 32>>,
    <<256, 302, 2, 1>>, <<306, 310, 2, 1>>, <<313, 327, 2, 1>>,
    <<330, 374, 2, 1>>, <<376, 376, 1, -121>>, <<377, 381, 2, 1>>,
    <<385, 385, 1, 210>>, <<386, 388, 2, 1>>, <<390, 390, 1, 206>>,
    <<391, 391, 1, 1>>, <<393, 394, 1, 205>>, <<395, 395, 1, 1>>,
    <<398, 398, 1, 79>>, <<399, 399, 1, 202>>, <<400, 400, 1, 203>>,
    <<401, 401, 1, 1>>, <<403, 403, 1, 205>>, <<404, 404, 1, 207>>,
    <<406, 406, 1, 211>>, <<407, 407, 1, 209>>, <<408, 408, 1, 1>>,
    <<412, 412, 1, 211>>, <<413, 413, 1, 213>>, <<415, 415, 1, 214>>,
    <<416, 420, 2, 1>>, <<422, 422, 1, 218>>, <<423, 423, 1, 1>>,
    <<425, 425, 1, 218>>, <<428, 428, 1, 1>>, <<430, 430, 1, 218>>,
    <<431, 431, 1, 1>>, <<433, 434, 1, 217>>, <<435, 437, 2, 1>>,
    <<439, 439, 1, 219>>, <<440, 440, 1, 1>>, <<444, 444, 1, 1>>,
    <<452, 452, 1, 2>>, <<453, 453, 1, 1>>, <<455, 455, 1, 2>>,
    <<456, 456, 1, 1>>, <<458, 458, 1, 2>>, <<459, 475, 2, 1>>,
    <<478, 494, 2, 1>>, <<497, 497, 1, 2>>, <<498, 500, 2, 1>>,
    <<502, 502, 1, -97>>, <<503, 503, 1, -56>>, <<504, 542, 2, 1>>,
    <<544, 544, 1, -130>>, <<546, 562, 2, 1>>, <<570, 570, 1, 10795>>,
    <<571, 571, 1, 1>>, <<573, 573, 1, -163>>, <<574, 574, 1, 10792>>,
    <<577, 577, 1, 1>>, <<579, 579, 1, -195>>, <<580, 580, 1, 69>>,
    <<581, 581, 1, 71>>, <<582, 590, 2, 1>>, <<880, 882, 2, 1>>,
    <<886, 886, 1, 1>>, <<895, 895, 1, 116>>, <<902, 902, 1, 38>>,
    <<904, 906, 1, 37>>, <<908, 908, 1, 64>>, <<910, 911, 1, 63>>,
    <<913, 929, 1, 32>>, <<931, 939, 1, 32>>, <<975, 975, 1, 8>>,
    <<984, 1006, 2, 1>>, <<1012, 1012, 1, -60>>, <<1015, 1015, 1, 1>>,
    <<1017, 1017, 1, -7>>, <<1018, 1018, 1, 1>>, <<1021, 1023, 1, -130>>,
    <<1024, 1039, 1, 80>>, <<1040, 1071, 1, 32>>, <<1120, 1152, 2, 1>>,
    <<1162, 1214, 2, 1>>, <<1216, 1216, 1, 15>>, <<1217, 1229, 2, 1>>,
    <<1232, 1326, 2, 1>>, <<1329, 1366, 1, 48>>, <<4256, 4293, 1, 7264>>,
    <<4295, 4295, 1, 7264>>, <<4301, 4301, 1, 7264>>,
    <<5024, 5103, 1, 38864>>, <<5104, 5109, 1, 8>>,
    <<7312, 7354, 1, -3008>>, <<7357, 7359, 1, -3008>>,
    <<7680, 7828, 2, 1>>, <<7838, 7838, 1, -7615>>, <<7840, 7934, 2, 1>>,
    <<7944, 7951, 1, -8>>, <<7960, 7965, 1, -8>>, <<7976, 7983, 1, -8>>,
    <<7992, 7999, 1, -8>>, <<8008, 8013, 1, -8>>, <<8025, 8031, 2, -8>>,
    <<8040, 8047, 1, -8>>, <<8072, 8079, 1, -8>>, <<8088, 8095, 1, -8>>,
    <<8104, 8111, 1, -8>>, <<8120, 8121, 1, -8>>, <<8122, 8123, 1, -74>>,
    <<8124, 8124, 1, -9>>, <<8136, 8139, 1, -86>>, <<8140, 8140, 1, -9>>,
    <<8152, 8153, 1, -8>>, <<8154, 8155, 1, -100>>, <<8168, 8169, 1, -8>>,
    <<8170, 8171, 1, -112>>, <<8172, 8172, 1, -7>>, <<8184, 8185, 1, -128>>,
    <<8186, 8187, 1, -126>>, <<8188, 8188, 1, -9>>,
    <<8486, 8486, 1, -7517>>, <<8490, 8490, 1, -8383>>,
    <<8491, 8491, 1, -8262>>, <<8498, 8498, 1, 28>>, <<8544, 8559, 1, 16>>,
    <<8579, 8579, 1, 1>>, <<9398, 9423, 1, 26>>, <<11264, 11311, 1, 48>>,
    <<11360, 11360, 1, 1>>, <<11362, 11362, 1, -10743>>,
    <<11363, 11363, 1, -3814>>, <<11364, 11364, 1, -10727>>,
    <<11367, 11371, 2, 1>>, <<11373, 11373, 1, -10780>>,
    <<11374, 11374, 1, -10749>>, <<11375, 11375, 1, -10783>>,
    <<11376, 11376, 1, -10782>>, <<11378, 11378, 1, 1>>,
    <<11381, 11381, 1, 1>>, <<11390, 11391, 1, -10815>>,
    <<11392, 11490, 2, 1>>, <<11499, 11501, 2, 1>>, <<11506, 11506, 1, 1>>,
    <<42560, 42604, 2, 1>>, <<42624, 42650, 2, 1>>, <<42786, 42798, 2, 1>>,
    <<42802, 42862, 2, 1>>, <<42873, 42875, 2, 1>>,
    <<42877, 42877, 1, -35332>>, <<42878, 42886, 2, 1>>,
    <<42891, 42891, 1, 1>>, <<42893, 42893, 1, -42280>>,
    <<42896, 42898, 2, 1>>, <<42902, 42920, 2, 1>>,
    <<42922, 42922, 1, -42308>>, <<42923, 42923, 1, -42319>>,
    <<42924, 42924, 1, -42315>>, <<42925, 42925, 1, -42305>>,
    <<42926, 42926, 1, -42308>>, <<42928, 42928, 1, -42258>>,
    <<42929, 42929, 1, -42282>>, <<42930, 42930, 1, -42261>>,
    <<42931, 42931, 1, 928>>, <<42932, 42946, 2, 1>>,
    <<42948, 42948, 1, -48>>, <<42949, 42949, 1, -42307>>,
    <<42950, 42950, 1, -35384>>, <<42951, 42953, 2, 1>>,
    <<42960, 42960, 1, 1>>, <<42966, 42968, 2, 1>>, <<42997, 42997, 1, 1>>,
    <<65313, 65338, 1, 32>>, <<66560, 66599, 1, 40>>,
    <<66736, 66771, 1, 40>>, <<66928, 66938, 1, 39>>,
    <<66940, 66954, 1, 39>>, <<66956, 66962, 1, 39>>,
    <<66964, 66965, 1, 39>>, <<68736, 68786, 1, 64>>,
    <<71840, 71871, 1, 32>>, <<93760, 93791, 1, 32>>,
    <<125184, 125217, 1, 34>>
    >>

\* the cased characters (upper, lower or title case letters)
CasedRanges ==
    <<
    <<65, 90>>, <<97, 122>>, <<170, 170>>, <<181, 181>>, <<186, 186>>,
    <<192, 214>>, <<216, 246>>, <<248, 442>>, <<444, 447>>, <<452, 659>>,
    <<661, 696>>, <<704, 705>>, <<736, 740>>, <<837, 837>>, <<880, 883>>,
    <<886, 887>>, <<890, 893>>, <<895, 895>>, <<902, 902>>, <<904, 906>>,
    <<908, 908>>, <<910, 929>>, <<931, 1013>>, <<1015, 1153>>,
    <<1162, 1327>>, <<1329, 1366>>, <<1376, 1416>>, <<4256, 4293>>,
    <<4295, 4295>>, <<4301, 4301>>, <<4304, 4346>>, <<4349, 4351>>,
    <<5024, 5109>>, <<5112, 5117>>, <<7296, 7304>>, <<7312, 7354>>,
    <<7357, 7359>>, <<7424, 7615>>, <<7680, 7957>>, <<7960, 7965>>,
    <<7968, 8005>>, <<8008, 8013>>, <<8016, 8023>>, <<8025, 8025>>,
    <<8027, 8027>>, <<8029, 8029>>, <<8031, 8061>>, <<8064, 8116>>,
    <<8118, 8124>>, <<8126, 8126>>, <<8130, 8132>>, <<8134, 8140>>,
    <<8144, 8147>>, <<8150, 8155>>, <<8160, 8172>>, <<8178, 8180>>,
    <<8182, 8188>>, <<8305, 8305>>, <<8319, 8319>>, <<8336, 8348>>,
    <<8450, 8450>>, <<8455, 8455>>, <<8458, 8467>>, <<8469, 8469>>,
    <<8473, 8477>>, <<8484, 8484>>, <<8486, 8486>>, <<8488, 8488>>,
    <<8490, 8493>>, <<8495, 8500>>, <<8505, 8505>>, <<8508, 8511>>,
    <<8517, 8521>>, <<8526, 8526>>, <<8544, 8575>>, <<8579, 8580>>,
    <<9398, 9449>>, <<11264, 11492>>, <<11499, 11502>>, <<11506, 11507>>,
    <<11520, 11557>>, <<11559, 11559>>, <<11565, 11565>>, <<42560, 42605>>,
    <<42624, 42653>>, <<42786, 42887>>, <<42891, 42894>>, <<42896, 42954>>,
    <<42960, 42961>>, <<42963, 42963>>, <<42965, 42969>>, <<42997, 42998>>,
    <<43000, 43002>>, <<43824, 43866>>, <<43868, 43880>>, <<43888, 43967>>,
    <<64256, 64262>>, <<64275, 64279>>, <<65313, 65338>>, <<65345, 65370>>,
    <<66560, 66639>>, <<66736, 66771>>, <<66776, 66811>>, <<66928, 66938>>,
    <<66940, 66954>>, <<66956, 66962>>, <<66964, 66965>>, <<66967, 66977>>,
    <<66979, 66993>>, <<66995, 67001>>, <<67003, 67004>>, <<67456, 67456>>,
    <<67459, 67461>>, <<67463, 67504>>, <<67506, 67514>>, <<68736, 68786>>,
    <<68800, 68850>>, <<71840, 71903>>, <<93760, 93823>>,
    <<119808, 119892>>, <<119894, 119964>>, <<119966, 119967>>,
    <<119970, 119970>>, <<119973, 119974>>, <<119977, 119980>>,
    <<119982, 119993>>, <<119995, 119995>>, <<119997, 120003>>,
    <<120005, 120069>>, <<120071, 120074>>, <<120077, 120084>>,
    <<120086, 120092>>, <<120094, 120121>>, <<120123, 120126>>,
    <<120128, 120132>>, <<120134, 120134>>, <<120138, 120144>>,
    <<120146, 120485>>, <<120488, 120512>>, <<120514, 120538>>,
    <<120540, 120570>>, <<120572, 120596>>, <<120598, 120628>>,
    <<120630, 120654>>, <<120656, 120686>>, <<120688, 120712>>,
    <<120714, 120744>>, <<120746, 120770>>, <<120772, 120779>>,
    <<122624, 122633>>, <<122635, 122654>>, <<125184, 125251>>,
    <<127280, 127305>>, <<127312, 127337>>, <<127344, 127369>>
    >>

\* the case-ignorable characters (marks, modifiers, apostrophes, ...)
CaseIgnorableRanges ==
    <<
    <<39, 39>>, <<46, 46>>, <<58, 58>>, <<94, 94>>, <<96, 96>>,
    <<168, 168>>, <<173, 173>>, <<175, 175>>, <<180, 180>>, <<183, 184>>,
    <<688, 879>>, <<884, 885>>, <<890, 890>>, <<900, 901>>, <<903, 903>>,
    <<1155, 1161>>, <<1369, 1369>>, <<1375, 1375>>, <<1425, 1469>>,
    <<1471, 1471>>, <<1473, 1474>>, <<1476, 1477>>, <<1479, 1479>>,
    <<1524, 1524>>, <<1536, 1541>>, <<1552, 1562>>, <<1564, 1564>>,
    <<1600, 1600>>, <<1611, 1631>>, <<1648, 1648>>, <<1750, 1757>>,
    <<1759, 1768>>, <<1770, 1773>>, <<1807, 1807>>, <<1809, 1809>>,
    <<1840, 1866>>, <<1958, 1968>>, <<2027, 2037>>, <<2042, 2042>>,
    <<2045, 2045>>, <<2070, 2093>>, <<2137, 2139>>, <<2184, 2184>>,
    <<2192, 2193>>, <<2200, 2207>>, <<2249, 2306>>, <<2362, 2362>>,
    <<2364, 2364>>, <<2369, 2376>>, <<2381, 2381>>, <<2385, 2391>>,
    <<2402, 2403>>, <<2417, 2417>>, <<2433, 2433>>, <<2492, 2492>>,
    <<2497, 2500>>, <<2509, 2509>>, <<2530, 2531>>, <<2558, 2558>>,
    <<2561, 2562>>, <<2620, 2620>>, <<2625, 2626>>, <<2631, 2632>>,
    <<2635, 2637>>, <<2641, 2641>>, <<2672, 2673>>, <<2677, 2677>>,
    <<2689, 2690>>, <<2748, 2748>>, <<2753, 2757>>, <<2759, 2760>>,
    <<2765, 2765>>, <<2786, 2787>>, <<2810, 2815>>, <<2817, 2817>>,
    <<2876, 2876>>, <<2879, 2879>>, <<2881, 2884>>, <<2893, 2893>>,
    <<2901, 2902>>, <<2914, 2915>>, <<2946, 2946>>, <<3008, 3008>>,
    <<3021, 3021>>, <<3072, 3072>>, <<3076, 3076>>, <<3132, 3132>>,
    <<3134, 3136>>, <<3142, 3144>>, <<3146, 3149>>, <<3157, 3158>>,
    <<3170, 3171>>, <<3201, 3201>>, <<3260, 3260>>, <<3263, 3263>>,
    <<3270, 3270>>, <<3276, 3277>>, <<3298, 3299>>, <<3328, 3329>>,
    <<3387, 3388>>, <<3393, 3396>>, <<3405, 3405>>, <<3426, 3427>>,
    <<3457, 3457>>, <<3530, 3530>>, <<3538, 3540>>, <<3542, 3542>>,
    <<3633, 3633>>, <<3636, 3642>>, <<3654, 3662>>, <<3761, 3761>>,
    <<3764, 3772>>, <<3782, 3782>>, <<3784, 3789>>, <<3864, 3865>>,
    <<3893, 3893>>, <<3895, 3895>>, <<3897, 3897>>, <<3953, 3966>>,
    <<3968, 3972>>, <<3974, 3975>>, <<3981, 3991>>, <<3993, 4028>>,
    <<4038, 4038>>, <<4141, 4144>>, <<4146, 4151>>, <<4153, 4154>>,
    <<4157, 4158>>, <<4184, 4185>>, <<4190, 4192>>, <<4209, 4212>>,
    <<4226, 4226>>, <<4229, 4230>>, <<4237, 4237>>, <<4253, 4253>>,
    <<4348, 4348>>, <<4957, 4959>>, <<5906, 5908>>, <<5938, 5939>>,
    <<5970, 5971>>, <<6002, 6003>>, <<6068, 6069>>, <<6071, 6077>>,
    <<6086, 6086>>, <<6089, 6099>>, <<6103, 6103>>, <<6109, 6109>>,
    <<6155, 6159>>, <<6211, 6211>>, <<6277, 6278>>, <<6313, 6313>>,
    <<6432, 6434>>, <<6439, 6440>>, <<6450, 6450>>, <<6457, 6459>>,
    <<6679, 6680>>, <<6683, 6683>>, <<6742, 6742>>, <<6744, 6750>>,
    <<6752, 6752>>, <<6754, 6754>>, <<6757, 6764>>, <<6771, 6780>>,
    <<6783, 6783>>, <<6823, 6823>>, <<6832, 6862>>, <<6912, 6915>>,
    <<6964, 6964>>, <<6966, 6970>>, <<6972, 6972>>, <<6978, 6978>>,
    <<7019, 7027>>, <<7040, 7041>>, <<7074, 7077>>, <<7080, 7081>>,
    <<7083, 7085>>, <<7142, 7142>>, <<7144, 7145>>, <<7149, 7149>>,
    <<7151, 7153>>, <<7212, 7219>>, <<7222, 7223>>, <<7288, 7293>>,
    <<7376, 7378>>, <<7380, 7392>>, <<7394, 7400>>, <<7405, 7405>>,
    <<7412, 7412>>, <<7416, 7417>>, <<7468, 7530>>, <<7544, 7544>>,
    <<7579, 7679>>, <<8125, 8125>>, <<8127, 8129>>, <<8141, 8143>>,
    <<8157, 8159>>, <<8173, 8175>>, <<8189, 8190>>, <<8203, 8207>>,
    <<8216, 8217>>, <<8228, 8228>>, <<8231, 8231>>, <<8234, 8238>>,
    <<8288, 8292>>, <<8294, 8303>>, <<8305, 8305>>, <<8319, 8319>>,
    <<8336, 8348>>, <<8400, 8432>>, <<11388, 11389>>, <<11503, 11505>>,
    <<11631, 11631>>, <<11647, 11647>>, <<11744, 11775>>, <<11823, 11823>>,
    <<12293, 12293>>, <<12330, 12333>>, <<12337, 12341>>, <<12347, 12347>>,
    <<12441, 12446>>, <<12540, 12542>>, <<40981, 40981>>, <<42232, 42237>>,
    <<42508, 42508>>, <<42607, 42610>>, <<42612, 42621>>, <<42623, 42623>>,
    <<42652, 42655>>, <<42736, 42737>>, <<42752, 42785>>, <<42864, 42864>>,
    <<42888, 42890>>, <<42994, 42996>>, <<43000, 43001>>, <<43010, 43010>>,
    <<43014, 43014>>, <<43019, 43019>>, <<43045, 43046>>, <<43052, 43052>>,
    <<43204, 43205>>, <<43232, 43249>>, <<43263, 43263>>, <<43302, 43309>>,
    <<43335, 43345>>, <<43392, 43394>>, <<43443, 43443>>, <<43446, 43449>>,
    <<43452, 43453>>, <<43471, 43471>>, <<43493, 43494>>, <<43561, 43566>>,
    <<43569, 43570>>, <<43573, 43574>>, <<43587, 43587>>, <<43596, 43596>>,
    <<43632, 43632>>, <<43644, 43644>>, <<43696, 43696>>, <<43698, 43700>>,
    <<43703, 43704>>, <<43710, 43711>>, <<43713, 43713>>, <<43741, 43741>>,
    <<43756, 43757>>, <<43763, 43764>>, <<43766, 43766>>, <<43867, 43871>>,
    <<43881, 43883>>, <<44005, 44005>>, <<44008, 44008>>, <<44013, 44013>>,
    <<64286, 64286>>, <<64434, 64450>>, <<65024, 65039>>, <<65043, 65043>>,
    <<65056, 65071>>, <<65106, 65106>>, <<65109, 65109>>, <<65279, 65279>>,
    <<65287, 65287>>, <<65294, 65294>>, <<65306, 65306>>, <<65342, 65342>>,
    <<65344, 65344>>, <<65392, 65392>>, <<65438, 65439>>, <<65507, 65507>>,
    <<65529, 65531>>, <<66045, 66045>>, <<66272, 66272>>, <<66422, 66426>>,
    <<67456, 67461>>, <<67463, 67504>>, <<67506, 67514>>, <<68097, 68099>>,
    <<68101, 68102>>, <<68108, 68111>>, <<68152, 68154>>, <<68159, 68159>>,
    <<68325, 68326>>, <<68900, 68903>>, <<69291, 69292>>, <<69446, 69456>>,
    <<69506, 69509>>, <<69633, 69633>>, <<69688, 69702>>, <<69744, 69744>>,
    <<69747, 69748>>, <<69759, 69761>>, <<69811, 69814>>, <<69817, 69818>>,
    <<69821, 69821>>, <<69826, 69826>>, <<69837, 69837>>, <<69888, 69890>>,
    <<69927, 69931>>, <<69933, 69940>>, <<70003, 70003>>, <<70016, 70017>>,
    <<70070, 70078>>, <<70089, 70092>>, <<70095, 70095>>, <<70191, 70193>>,
    <<70196, 70196>>, <<70198, 70199>>, <<70206, 70206>>, <<70367, 70367>>,
    <<70371, 70378>>, <<70400, 70401>>, <<70459, 70460>>, <<70464, 70464>>,
    <<70502, 70508>>, <<70512, 70516>>, <<70712, 70719>>, <<70722, 70724>>,
    <<70726, 70726>>, <<70750, 70750>>, <<70835, 70840>>, <<70842, 70842>>,
    <<70847, 70848>>, <<70850, 70851>>, <<71090, 71093>>, <<71100, 71101>>,
    <<71103, 71104>>, <<71132, 71133>>, <<71219, 71226>>, <<71229, 71229>>,
    <<71231, 71232>>, <<71339, 71339>>, <<71341, 71341>>, <<71344, 71349>>,
    <<71351, 71351>>, <<71453, 71455>>, <<71458, 71461>>, <<71463, 71467>>,
    <<71727, 71735>>, <<71737, 71738>>, <<71995, 71996>>, <<71998, 71998>>,
    <<72003, 72003>>, <<72148, 72151>>, <<72154, 72155>>, <<72160, 72160>>,
    <<72193, 72202>>, <<72243, 72248>>, <<72251, 72254>>, <<72263, 72263>>,
    <<72273, 72278>>, <<72281, 72283>>, <<72330, 72342>>, <<72344, 72345>>,
    <<72752, 72758>>, <<72760, 72765>>, <<72767, 72767>>, <<72850, 72871>>,
    <<72874, 72880>>, <<72882, 72883>>, <<72885, 72886>>, <<73009, 73014>>,
    <<73018, 73018>>, <<73020, 73021>>, <<73023, 73029>>, <<73031, 73031>>,
    <<73104, 73105>>, <<73109, 73109>>, <<73111, 73111>>, <<73459, 73460>>,
    <<78896, 78904>>, <<92912, 92916>>, <<92976, 92982>>, <<92992, 92995>>,
    <<94031, 94031>>, <<94095, 94111>>, <<94176, 94177>>, <<94179, 94180>>,
    <<110576, 110579>>, <<110581, 110587>>, <<110589, 110590>>,
    <<113821, 113822>>, <<113824, 113827>>, <<118528, 118573>>,
    <<118576, 118598>>, <<119143, 119145>>, <<119155, 119170>>,
    <<119173, 119179>>, <<119210, 119213>>, <<119362, 119364>>,
    <<121344, 121398>>, <<121403, 121452>>, <<121461, 121461>>,
    <<121476, 121476>>, <<121499, 121503>>, <<121505, 121519>>,
    <<122880, 122886>>, <<122888, 122904>>, <<122907, 122913>>,
    <<122915, 122916>>, <<122918, 122922>>, <<123184, 123197>>,
    <<123566, 123566>>, <<123628, 123631>>, <<125136, 125142>>,
    <<125252, 125259>>, <<127995, 127999>>, <<917505, 917505>>,
    <<917536, 917631>>, <<917760, 917999>>
    >>

\* the index of the row of the table R, between rows lo and hi, whose range
\* first..last holds c; 0 when there is none
RECURSIVE TableIndex(_, _, _, _)
TableIndex(c, R, lo, hi) ==
    IF lo > hi THEN 0
    ELSE LET m == (lo + hi) \div 2
         IN IF c < R[m][1] THEN TableIndex(c, R, lo, m - 1)
            ELSE IF c > R[m][2] THEN TableIndex(c, R, m + 1, hi)
            ELSE m

InTable(c, R) == TableIndex(c, R, 1, Len(R)) # 0

\* the simple lowercase mapping of one code point, from the table
LowerOf(c) ==
    LET k == TableIndex(c, LowerTable, 1, Len(LowerTable))
    IN IF k # 0 /\ (c - LowerTable[k][1]) % LowerTable[k][3] = 0
       THEN c + LowerTable[k][4]
       ELSE c

\* the tables on the code points below 256, looked up once
Latin1 == 0..255
SpaceLatin1 == {c \in Latin1 : InTable(c, SpaceRanges)}
DigitLatin1 == {c \in Latin1 : InTable(c, DigitRanges)}
WordLatin1 == {c \in Latin1 : InTable(c, WordRanges)}
LowerLatin1 == [c \in Latin1 |-> LowerOf(c)]

IsSpace(c) == IF c \in Latin1 THEN c \in SpaceLatin1 ELSE InTable(c, SpaceRanges)   \* \s
IsDigit(c) == IF c \in Latin1 THEN c \in DigitLatin1 ELSE InTable(c, DigitRanges)   \* \d
IsWord(c) == IF c \in Latin1 THEN c \in WordLatin1 ELSE InTable(c, WordRanges)      \* \w
IsCased(c) == InTable(c, CasedRanges)
IsCaseIgnorable(c) == InTable(c, CaseIgnorableRanges)

\* the simple lowercase mapping of one code point
ToLower(c) == IF c \in Latin1 THEN LowerLatin1[c] ELSE LowerOf(c)

CAPITAL_SIGMA == 931                 \* U+03A3
SMALL_SIGMA == 963                   \* U+03C3
SMALL_FINAL_SIGMA == 962             \* U+03C2
CAPITAL_I_WITH_DOT == 304            \* U+0130
SMALL_I_COMBINING_DOT == <<105, 775>>    \* U+0069 U+0307

\* the nearest position before i (from j down) that is not case-ignorable, 0
\* when there is none
RECURSIVE SkipIgnorableBack(_, _)
SkipIgnorableBack(t, j) ==
    IF j < 1 \/ ~IsCaseIgnorable(t[j]) THEN j ELSE SkipIgnorableBack(t, j - 1)

\* the nearest position after i (from j up) that is not case-ignorable,
\* Len(t) + 1 when there is none
RECURSIVE SkipIgnorableFwd(_, _)
SkipIgnorableFwd(t, j) ==
    IF j > Len(t) \/ ~IsCaseIgnorable(t[j]) THEN j ELSE SkipIgnorableFwd(t, j + 1)

\* the capital sigma at position i ends a word: a cased character comes
\* before it and none after it, case-ignorable characters skipped
FinalSigma(t, i) ==
    LET j == SkipIgnorableBack(t, i - 1)
        k == SkipIgnorableFwd(t, i + 1)
    IN /\ j >= 1 /\ IsCased(t[j])
       /\ k > Len(t) \/ ~IsCased(t[k])

\* what str.lower() writes for the character at position i of t
LowerAt(t, i) ==
    IF t[i] = CAPITAL_SIGMA
    THEN <<IF FinalSigma(t, i) THEN SMALL_FINAL_SIGMA ELSE SMALL_SIGMA>>
    ELSE IF t[i] = CAPITAL_I_WITH_DOT THEN SMALL_I_COMBINING_DOT
    ELSE <<ToLower(t[i])>>

\* str.lower() on a string of one character
lowerChar(c) == LowerAt(<<c>>, 1)

RECURSIVE LowerFrom(_, _)
LowerFrom(t, i) ==
    IF i > Len(t) THEN <<>> ELSE LowerAt(t, i) \o LowerFrom(t, i + 1)

\* str.lower()
lower(t) == LowerFrom(t, 1)

\* t[i:] of Python with a 1-based i
Suffix(t, i) == SubSeq(t, i, Len(t))

\* does the literal lit occur in t at position i
LitAt(t, i, lit) ==
    /\ i + Len(lit) - 1 <= Len(t)
    /\ \A k \in 1..Len(lit) : t[i + k - 1] = lit[k]

(***************************************************************************)
(* _strip_headers: re.split(r'\r?\n\r?\n', text, maxsplit=1)               *)
(***************************************************************************)
\* length of the match of \r?\n at position i, 0 when there is none
NewlineLen(t, i) ==
    IF LitAt(t, i, <<CR, LF>>) THEN 2
    ELSE IF LitAt(t, i, <<LF>>) THEN 1
    ELSE 0

\* length of the match of \r?\n\r?\n at position i, 0 when there is none
HeaderSepLen(t, i) ==
    LET a == NewlineLen(t, i)
        b == IF a = 0 THEN 0 ELSE NewlineLen(t, i + a)
    IN IF a = 0 \/ b = 0 THEN 0 ELSE a + b

\* the positions at which the separator matches
HeaderSepAt(t) == {i \in 1..Len(t) : HeaderSepLen(t, i) > 0}

Min(S) == CHOOSE m \in S : \A n \in S : m <= n

\* a slip: parts[0], the header block, is kept instead of parts[1]
_strip_headers_keeps_head(t) ==
    IF HeaderSepAt(t) = {} THEN t
    ELSE SubSeq(t, 1, Min(HeaderSepAt(t)) - 1)

_strip_headers(t) ==
    IF HeaderSepAt(t) = {} THEN t
    ELSE LET i == Min(HeaderSepAt(t))
         IN Suffix(t, i + HeaderSepLen(t, i))

(***************************************************************************)
(* _replace_urls: re.sub(r'https?://\S+|www\.\S+', ' URL ', text)          *)
(***************************************************************************)
URL_TOKEN == Str(<<" ", "U", "R", "L", " ">>)
NUMBER_TOKEN == Str(<<" ", "N", "U", "M", "B", "E", "R", " ">>)

\* \S+ : the end (exclusive) of the maximal run of non-whitespace from i
RECURSIVE NonSpaceEnd(_, _)
NonSpaceEnd(t, i) ==
    IF i > Len(t) \/ IsSpace(t[i]) THEN i ELSE NonSpaceEnd(t, i + 1)

\* \d+ : the end (exclusive) of the maximal run of digits from i
RECURSIVE DigitEnd(_, _)
DigitEnd(t, i) ==
    IF i > Len(t) \/ ~IsDigit(t[i]) THEN i ELSE DigitEnd(t, i + 1)

HTTPS_SCHEME == Str(<<"h","t","t","p","s",":","/","/">>)
HTTP_SCHEME == Str(<<"h","t","t","p",":","/","/">>)
WWW_PREFIX == Str(<<"w","w","w",".">>)

\* length of the scheme literal matched at i: https?:// or www\. ; 0 if none
SchemeLen(t, i) ==
    IF LitAt(t, i, HTTPS_SCHEME) THEN Len(HTTPS_SCHEME)
    ELSE IF LitAt(t, i, HTTP_SCHEME) THEN Len(HTTP_SCHEME)
    ELSE IF LitAt(t, i, WWW_PREFIX) THEN Len(WWW_PREFIX)
    ELSE 0

\* length of the match of the URL pattern at position i, 0 when there is none
UrlMatchLen(t, i) ==
    LET s == SchemeLen(t, i)
        e == NonSpaceEnd(t, i + s)
    IN IF s = 0 \/ e = i + s THEN 0 ELSE e - i

RECURSIVE ReplaceUrlsFrom(_, _)
ReplaceUrlsFrom(t, i) ==
    IF i > Len(t) THEN <<>>
    ELSE LET m == UrlMatchLen(t, i)
         IN IF m > 0 THEN URL_TOKEN \o ReplaceUrlsFrom(t, i + m)
            ELSE <<t[i]>> \o ReplaceUrlsFrom(t, i + 1)

\* a slip: re.sub(..., count=1), only the first run is replaced
_replace_urls_first_only(t) ==
    LET M == {i \in 1..Len(t) : UrlMatchLen(t, i) > 0}
    IN IF M = {} THEN t
       ELSE SubSeq(t, 1, Min(M) - 1) \o URL_TOKEN
                \o Suffix(t, Min(M) + UrlMatchLen(t, Min(M)))

_replace_urls(t) == ReplaceUrlsFrom(t, 1)

(***************************************************************************)
(* _replace_numbers: re.sub(r'\b\d+(?:[.,]\d+)?\b', ' NUMBER ', text)      *)
(***************************************************************************)
\* [.,]
DecimalMarks == {ord("."), ord(",")}

\* \b at position i (between t[i-1] and t[i])
WordBoundary(t, i) ==
    LET before == i > 1 /\ i - 1 <= Len(t) /\ IsWord(t[i - 1])
        after == i >= 1 /\ i <= Len(t) /\ IsWord(t[i])
    IN before # after

\* length of the match of the number pattern at position i, 0 when none
NumberMatchLen(t, i) ==
    IF ~(i <= Len(t) /\ IsDigit(t[i]) /\ WordBoundary(t, i)) THEN 0
    ELSE LET j == DigitEnd(t, i)
             k == IF j <= Len(t) /\ t[j] \in DecimalMarks THEN DigitEnd(t, j + 1) ELSE j
         IN IF k > j + 1 /\ WordBoundary(t, k) THEN k - i
            ELSE IF WordBoundary(t, j) THEN j - i
            ELSE 0

RECURSIVE ReplaceNumbersFrom(_, _)
ReplaceNumbersFrom(t, i) ==
    IF i > Len(t) THEN <<>>
    ELSE LET m == NumberMatchLen(t, i)
         IN IF m > 0 THEN NUMBER_TOKEN \o ReplaceNumbersFrom(t, i + m)
            ELSE <<t[i]>> \o ReplaceNumbersFrom(t, i + 1)

_replace_numbers(t) == ReplaceNumbersFrom(t, 1)

(***************************************************************************)
(* _remove_punct: re.sub(r'[^\w\s]', ' ', text)                            *)
(***************************************************************************)
_remove_punct(t) ==
    [i \in 1..Len(t) |-> IF IsWord(t[i]) \/ IsSpace(t[i]) THEN t[i] ELSE SPACE]

(***************************************************************************)
(* _stem: " ".join(stemmer.stem(t) for t in text.split())                  *)
(***************************************************************************)
\* str.split(): the maximal runs of non-whitespace, in order
RECURSIVE SplitFrom(_, _)
SplitFrom(t, i) ==
    IF i > Len(t) THEN <<>>
    ELSE IF IsSpace(t[i]) THEN SplitFrom(t, i + 1)
    ELSE LET e == NonSpaceEnd(t, i)
         IN <<SubSeq(t, i, e - 1)>> \o SplitFrom(t, e)

split(t) == SplitFrom(t, 1)

\* " ".join(tokens)
RECURSIVE join(_)
join(toks) ==
    IF toks = <<>> THEN <<>>
    ELSE IF Len(toks) = 1 THEN toks[1]
    ELSE toks[1] \o <<SPACE>> \o join(Tail(toks))

\* SnowballStemmer("english").stem(word).  The stemmer lowercases the word
\* first.  Every later step removes or rewrites a suffix that lies in the
\* regions R1/R2 after a vowel, or a final s, y, e or l: on a word holding
\* no vowel and none of these endings, and on the two replacement tokens
\* "url" and "number", no step applies and the word is returned lowercased.
\* The inputs of the model hold only such words (a Greek sigma or U+0000 is
\* no vowel and no English ending).
stem(word) == lower(word)

_stem(t) == join([i \in 1..Len(split(t)) |-> stem(split(t)[i])])

(***************************************************************************)
(* transform: the body of the loop over X, for one text                    *)
(***************************************************************************)
\* re.sub(r'\s+', ' ', text)
RECURSIVE CollapseFrom(_, _)
CollapseFrom(t, i) ==
    IF i > Len(t) THEN <<>>
    ELSE IF IsSpace(t[i]) /\ i > 1 /\ IsSpace(t[i - 1]) THEN CollapseFrom(t, i + 1)
    ELSE IF IsSpace(t[i]) THEN <<SPACE>> \o CollapseFrom(t, i + 1)
    ELSE <<t[i]>> \o CollapseFrom(t, i + 1)

\* str.strip()
strip(t) ==
    LET keep == {i \in 1..Len(t) : ~IsSpace(t[i])}
    IN IF keep = {} THEN <<>>
       ELSE SubSeq(t, Min(keep), CHOOSE m \in keep : \A n \in keep : n <= m)

collapse_whitespace(t) == strip(CollapseFrom(t, 1))

NUL == 0    \* '\x00'

\* np.array(out)[k]: the array has a fixed-width str dtype, whose elements
\* are padded with U+0000; an element read back has lost its trailing U+0000
np_array_item(s) ==
    LET keep == {i \in 1..Len(s) : s[i] # NUL}
    IN IF keep = {} THEN <<>>
       ELSE SubSeq(s, 1, CHOOSE m \in keep : \A n \in keep : n <= m)

\* one element of transform(X), as the caller reads it from the array
transform(c, t) ==
    LET t1 == IF c.strip_headers THEN _strip_headers(t) ELSE t
        t2 == IF c.lowercase THEN lower(t1) ELSE t1
        t3 == IF c.replace_urls THEN _replace_urls(t2) ELSE t2
        t4 == IF c.replace_numbers THEN _replace_numbers(t3) ELSE t3
        t5 == IF c.remove_punctuation THEN _remove_punct(t4) ELSE t4
        t6 == IF c.do_stemming THEN _stem(t5) ELSE t5
    IN np_array_item(collapse_whitespace(t6))

\* EmailPreprocessor.__init__: the defaults
DefaultConfig ==
    [strip_headers |-> TRUE, lowercase |-> TRUE, replace_urls |-> TRUE,
     replace_numbers |-> TRUE, remove_punctuation |-> TRUE, do_stemming |-> FALSE]

Configs ==
    [strip_headers : BOOLEAN, lowercase : BOOLEAN, replace_urls : BOOLEAN,
     replace_numbers : BOOLEAN, remove_punctuation : BOOLEAN, do_stemming : BOOLEAN]

RECURSIVE Flatten(_)
Flatten(ss) == IF ss = <<>> THEN <<>> ELSE ss[1] \o Flatten(Tail(ss))

SeqsUpTo(S, n) == UNION {[1..k -> S] : k \in 0..n}

(***************************************************************************)
(* model.py: the keyword fallback                                          *)
(***************************************************************************)
scam_keywords ==
    LET kws ==
    << <<"u","r","g","e","n","t">>,
       <<"v","e","r","i","f","y">>,
       <<"s","u","s","p","e","n","d","e","d">>,
       <<"c","l","i","c","k"," ","h","e","r","e">>,
       <<"p","r","i","z","e">>,
       <<"w","i","n","n","e","r">>,
       <<"c","o","n","g","r","a","t","u","l","a","t","i","o","n","s">>,
       <<"b","a","n","k"," ","a","c","c","o","u","n","t">>,
       <<"p","a","s","s","w","o","r","d">>,
       <<"c","o","n","f","i","r","m"," ","i","d","e","n","t","i","t","y">>,
       <<"a","c","t"," ","n","o","w">>,
       <<"l","i","m","i","t","e","d"," ","t","i","m","e">>,
       <<"f","r","e","e"," ","m","o","n","e","y">>,
       <<"n","i","g","e","r","i","a","n"," ","p","r","i","n","c","e">>,
       <<"i","n","h","e","r","i","t","a","n","c","e">>,
       <<"t","a","x"," ","r","e","f","u","n","d">>,
       <<"c","l","a","i","m"," ","n","o","w">>,
       <<"a","c","c","o","u","n","t"," ","l","o","c","k","e","d">>,
       <<"u","n","u","s","u","a","l"," ","a","c","t","i","v","i","t","y">>,
       <<"e","x","p","i","r","e","s"," ","t","o","d","a","y">>,
       <<"v","e","r","i","f","y"," ","y","o","u","r"," ","a","c","c","o","u","n","t">>,
       <<"c","o","n","f","i","r","m"," ","y","o","u","r"," ","i","d","e","n","t","i","t","y">>,
       <<"u","p","d","a","t","e"," ","p","a","y","m","e","n","t">> >>
    IN [k \in 1..Len(kws) |-> Str(kws[k])]

\* keyword in text_lower
Contains(t, kw) == \E i \in 1..(Len(t) - Len(kw) + 1) : LitAt(t, i, kw)

SPAM_THRESHOLD == 3

\* sum(1 for keyword in scam_keywords if keyword in text_lower), from the
\* k-th keyword on
RECURSIVE ScamScoreFrom(_, _)
ScamScoreFrom(text_lower, k) ==
    IF k > Len(scam_keywords) THEN 0
    ELSE (IF Contains(text_lower, scam_keywords[k]) THEN 1 ELSE 0)
            + ScamScoreFrom(text_lower, k + 1)

fallback_classification(t) ==
    IF ScamScoreFrom(lower(t), 1) >= SPAM_THRESHOLD THEN "Spam" ELSE "Not Spam"

(***************************************************************************)
(* model.py: label and confidence from the artifact                        *)
(***************************************************************************)
NoModel == 0                 \* None
FALLBACK_CONFIDENCE == 85    \* 0.85, confidences are in hundredths

\* a slip: the last index of the maximum wins a tie
argmax_last_wins(proba) ==
    CHOOSE i \in 1..Len(proba) :
        /\ \A j \in 1..Len(proba) : proba[j] <= proba[i]
        /\ \A j \in (i + 1)..Len(proba) : proba[j] < proba[i]

\* numpy argmax with 1-based indices: the first index of the maximum
argmax(proba) ==
    CHOOSE i \in 1..Len(proba) :
        /\ \A j \in 1..Len(proba) : proba[j] <= proba[i]
        /\ \A j \in 1..(i - 1) : proba[j] < proba[i]

\* "Spam" if prediction_idx == 1 else "Not Spam" (0-based index 1 is 2 here)
label_of_index(idx) == IF idx = 2 THEN "Spam" ELSE "Not Spam"

\* "Spam" if prediction == 1 else "Not Spam", for the class predict returns
label_of_class(c) == IF c = 1 THEN "Spam" ELSE "Not Spam"

\* what predict_proba([text])[0] can be: a vector of two probabilities in
\* hundredths, or <<>> for a fault
ProbaLevels == {25, 50, 75}
ProbaOutcomes == {<<>>} \cup {<<p, 100 - p>> : p \in ProbaLevels}

\* what predict([text])[0] can be: class 0 or 1, or 2 for a fault
PredictFault == 2
PredictOutcomes == {0, 1, PredictFault}

(***************************************************************************)
(* app.py: validation of the body of POST /predict                         *)
(***************************************************************************)
MIN_TEXT_LENGTH == 10

\* The body as request.get_json() sees it:
\*   malformed  get_json() raises (not parseable)
\*   missing    get_json() returns None (no JSON body)
\*   empty      {} , falsy like None
\*   nokey      an object without the key email_text
\*   nonstr     email_text is not a string (null, a number)
\*   text       email_text is the string in the field email_text
Body(kind, t) == [kind |-> kind, email_text |-> t]

\* lines 43-65 and the except clauses: the status the handler answers with
\* before any classification (200: go on with the trimmed text)
validate(body) ==
    IF body.kind = "malformed" THEN [status |-> 500, text |-> <<>>]
    ELSE IF body.kind \in {"missing", "empty"} THEN [status |-> 400, text |-> <<>>]
    ELSE IF body.kind = "nonstr" THEN [status |-> 500, text |-> <<>>]
    ELSE LET email_text == IF body.kind = "nokey" THEN <<>> ELSE strip(body.email_text)
         IN IF email_text = <<>> THEN [status |-> 400, text |-> <<>>]
            ELSE IF Len(email_text) < MIN_TEXT_LENGTH THEN [status |-> 400, text |-> <<>>]
            ELSE [status |-> 200, text |-> email_text]

(***************************************************************************)
(* Request threads                                                         *)
(***************************************************************************)
Threads == 1..NumThreads

\* The log lines of model.py (46, 55, 65, 97, 132) and app.py (75, 91) hold
\* emoji.  print raises UnicodeEncodeError, a ValueError, when the encoding
\* of sys.stdout has no such character.
StdoutEncodings == {"utf-8", "ascii"}
CanLog == stdout = "utf-8"

\* status: the HTTP status; label, conf, via: what get_prediction_confidence
\* returned and from where ("none": it was not called, "raised": it raised)
NoResp == [status |-> 0, label |-> "none", conf |-> 0, via |-> "none"]

IdleThread ==
    [pc |-> "idle", route |-> "none", body |-> Body("missing", <<>>), text |-> <<>>, caller |-> "none",
     model |-> NoModel, proba |-> <<>>, faulted |-> FALSE, afterFail |-> FALSE,
     resp |-> NoResp]

\* the thread after it has answered: the locals are dropped
Respond(r, resp) ==
    [r EXCEPT !.pc = "done", !.caller = "none", !.model = NoModel, !.resp = resp]

\* the thread after a print in model.py has raised UnicodeEncodeError out of
\* its function: no caller in model.py catches it (lines 83, 115, 133, 137
\* and 164 are outside a try, 97 and 132 inside an except clause); predict()
\* catches it as a ValueError and answers 400 (app.py lines 83-87), health()
\* does not and the server answers 500
Raised(r) ==
    Respond(r, [NoResp EXCEPT !.status = IF r.route = "health" THEN 500 ELSE 400,
                              !.via = "raised"])

\* the thread after get_prediction_confidence has returned (label, conf):
\* app.py lines 72-81, the log line 75 comes before the answer
Return(r, label, conf, via) ==
    Respond(r, [status |-> IF CanLog THEN 200 ELSE 400,
                label |-> label, conf |-> conf, via |-> via])

\* the thread after load_model has returned m to its caller
AfterLoad(r, m) ==
    IF r.caller = "gpc"
    THEN IF m # NoModel
         THEN [r EXCEPT !.pc = "proba", !.model = m]
         ELSE [r EXCEPT !.pc = "lm_check", !.caller = "classify", !.model = m]
    ELSE IF r.caller = "classify"
    THEN IF m # NoModel
         THEN [r EXCEPT !.pc = "predict", !.model = m]
         ELSE [r EXCEPT !.pc = "fallback", !.model = m]
    ELSE Respond(r, [status |-> 200, label |-> IF m # NoModel THEN "loaded" ELSE "not loaded",
                     conf |-> 0, via |-> "health"])

\* a client sends POST /predict with one of the bodies
Receive(t, bodies) ==
    /\ th[t].pc \in {"idle", "done"}
    /\ budget > 0
    /\ budget' = budget - 1
    /\ \E b \in bodies :
          th' = [th EXCEPT ![t] = [IdleThread EXCEPT !.pc = "validate", !.route = "predict",
                                                    !.body = b, !.afterFail = failed]]
    /\ UNCHANGED <<_model, _model_loaded, loads, failed>>
    /\ UNCHANGED <<nvars, stdout>>

\* a client sends GET /health: get_model_info() calls load_model()
ReceiveHealth(t) ==
    /\ th[t].pc \in {"idle", "done"}
    /\ budget > 0
    /\ budget' = budget - 1
    /\ th' = [th EXCEPT ![t] = [IdleThread EXCEPT !.pc = "lm_check", !.route = "health",
                                                  !.caller = "info", !.afterFail = failed]]
    /\ UNCHANGED <<_model, _model_loaded, loads, failed>>
    /\ UNCHANGED <<nvars, stdout>>

\* app.py predict(), up to the call of get_prediction_confidence
Validate(t) ==
    /\ th[t].pc = "validate"
    /\ LET v == validate(th[t].body)
       IN th' = [th EXCEPT ![t] =
                    IF v.status = 200
                    THEN [@ EXCEPT !.pc = "lm_check", !.caller = "gpc", !.text = v.text]
                    ELSE Respond(@, [NoResp EXCEPT !.status = v.status])]
    /\ UNCHANGED <<_model, _model_loaded, loads, failed, budget>>
    /\ UNCHANGED <<nvars, stdout>>

\* load_model, lines 41-42: if _model_loaded: return _model
LoadCheck(t) ==
    /\ th[t].pc = "lm_check"
    /\ th' = [th EXCEPT ![t] =
                 IF _model_loaded THEN AfterLoad(@, _model) ELSE [@ EXCEPT !.pc = "lm_exists"]]
    /\ UNCHANGED <<_model, _model_loaded, loads, failed, budget>>
    /\ UNCHANGED <<nvars, stdout>>

\* load_model, lines 45-50: os.path.exists(MODEL_PATH).  When the file is
\* missing and line 46 cannot be printed, the except clause is entered and
\* its own print (line 65) raises before line 68 sets the flag
LoadExists(t) ==
    /\ th[t].pc = "lm_exists"
    /\ \E exists \in BOOLEAN :
          IF exists
          THEN /\ th' = [th EXCEPT ![t].pc = "lm_load"]
               /\ UNCHANGED <<_model_loaded, failed>>
          ELSE IF CanLog
          THEN /\ _model_loaded' = TRUE
               /\ failed' = TRUE
               /\ th' = [th EXCEPT ![t] = AfterLoad(@, NoModel)]
          ELSE /\ failed' = TRUE
               /\ th' = [th EXCEPT ![t] = Raised(@)]
               /\ UNCHANGED _model_loaded
    /\ UNCHANGED <<_model, loads, budget>>
    /\ UNCHANGED <<nvars, stdout>>

\* load_model, line 53 and the except clause: _model = joblib.load(MODEL_PATH).
\* When the load raises and line 65 cannot be printed, that print raises
\* before line 68 sets the flag
LoadFile(t) ==
    /\ th[t].pc = "lm_load"
    /\ loads' = loads + 1
    /\ \E ok \in BOOLEAN :
          IF ok
          THEN /\ _model' = loads + 1
               /\ th' = [th EXCEPT ![t].pc = "lm_flag"]
               /\ UNCHANGED <<_model_loaded, failed>>
          ELSE IF CanLog
          THEN /\ _model_loaded' = TRUE
               /\ failed' = TRUE
               /\ th' = [th EXCEPT ![t] = AfterLoad(@, NoModel)]
               /\ UNCHANGED _model
          ELSE /\ failed' = TRUE
               /\ th' = [th EXCEPT ![t] = Raised(@)]
               /\ UNCHANGED <<_model, _model_loaded>>
    /\ UNCHANGED budget
    /\ UNCHANGED <<nvars, stdout>>

\* load_model, line 54: _model_loaded = True
LoadFlag(t) ==
    /\ th[t].pc = "lm_flag"
    /\ _model_loaded' = TRUE
    /\ th' = [th EXCEPT ![t].pc = "lm_return"]
    /\ UNCHANGED <<_model, loads, failed, budget>>
    /\ UNCHANGED <<nvars, stdout>>

\* load_model, lines 55-62 and the except clause: the report on the loaded
\* artifact, then return _model.  Line 55 raises when it cannot be printed,
\* and then so does line 65.  Line 60 raises when the artifact has an
\* attribute steps that is not a sequence of pairs: the except clause sets
\* the flag again and returns None, with the artifact left in _model
LoadReturn(t) ==
    /\ th[t].pc = "lm_return"
    /\ \E steps_ok \in BOOLEAN :
          IF ~CanLog
          THEN /\ th' = [th EXCEPT ![t] = Raised(@)]
               /\ UNCHANGED _model_loaded
          ELSE IF steps_ok
          THEN /\ th' = [th EXCEPT ![t] = AfterLoad(@, _model)]
               /\ UNCHANGED _model_loaded
          ELSE /\ _model_loaded' = TRUE
               /\ th' = [th EXCEPT ![t] = AfterLoad(@, NoModel)]
    /\ UNCHANGED <<_model, loads, failed, budget>>
    /\ UNCHANGED <<nvars, stdout>>

\* get_prediction_confidence, lines 117-134: model.predict_proba([text])[0];
\* on a fault line 132 is printed and classify_email(text) is called
Proba(t) ==
    /\ th[t].pc = "proba"
    /\ \E proba \in ProbaOutcomes :
          th' = [th EXCEPT ![t] =
                    IF proba # <<>>
                    THEN Return([@ EXCEPT !.proba = proba],
                                label_of_index(argmax(proba)), proba[argmax(proba)], "proba")
                    ELSE IF CanLog
                    THEN [@ EXCEPT !.pc = "lm_check", !.caller = "classify", !.faulted = TRUE]
                    ELSE Raised([@ EXCEPT !.faulted = TRUE])]
    /\ UNCHANGED <<_model, _model_loaded, loads, failed, budget>>
    /\ UNCHANGED <<nvars, stdout>>

\* classify_email, lines 85-98: model.predict([text])[0], on a fault line 97
\* is printed; the caller get_prediction_confidence adds the confidence 0.85
Predict(t) ==
    /\ th[t].pc = "predict"
    /\ \E prediction \in PredictOutcomes :
          th' = [th EXCEPT ![t] =
                    IF prediction # PredictFault
                    THEN Return(@, label_of_class(prediction), FALLBACK_CONFIDENCE, "predict")
                    ELSE IF CanLog
                    THEN [@ EXCEPT !.pc = "fallback"]
                    ELSE Raised(@)]
    /\ UNCHANGED <<_model, _model_loaded, loads, failed, budget>>
    /\ UNCHANGED <<nvars, stdout>>

\* classify_email, lines 98 and 101: fallback_classification(text); the
\* caller get_prediction_confidence adds the confidence 0.85
Fallback(t) ==
    /\ th[t].pc = "fallback"
    /\ th' = [th EXCEPT ![t] =
                 Return(@, fallback_classification(@.text), FALLBACK_CONFIDENCE, "keywords")]
    /\ UNCHANGED <<_model, _model_loaded, loads, failed, budget>>
    /\ UNCHANGED <<nvars, stdout>>

Serve(t) ==
    \/ Validate(t)
    \/ LoadCheck(t)
    \/ LoadExists(t)
    \/ LoadFile(t)
    \/ LoadFlag(t)
    \/ LoadReturn(t)
    \/ Proba(t)
    \/ Predict(t)
    \/ Fallback(t)

(***************************************************************************)
(* The clients                                                             *)
(***************************************************************************)
NBSP == 160    \* '\xa0', the no-break space

\* four words and a run of whitespace
Words ==
    << Str(<<"u","r","g","e","n","t">>), Str(<<"P","r","i","z","e">>),
       Str(<<"v","e","r","i","f","y">>), Str(<<"w","i","n","n","e","r">>),
       <<SPACE, NBSP>> >>

\* the texts of the HTTP clients: up to MaxWords words, one after the other
HttpTexts == {Flatten([i \in 1..Len(s) |-> Words[s[i]]]) : s \in SeqsUpTo(1..Len(Words), MaxWords)}

HttpBodies ==
    {Body(k, <<>>) : k \in {"malformed", "missing", "empty", "nokey", "nonstr"}}
        \cup {Body("text", t) : t \in HttpTexts}

\* the text of the concurrent clients, with three keywords
SvcBodies == { Body("text", Words[1] \o Words[2] \o Words[3]) }

InitService(n, encodings) ==
    /\ stdout \in encodings
    /\ _model = NoModel
    /\ _model_loaded = FALSE
    /\ th = [t \in Threads |-> IdleThread]
    /\ loads = 0
    /\ failed = FALSE
    /\ budget = n

InitNormaliser ==
    /\ cfg = DefaultConfig
    /\ text = <<>>
    /\ hdr = <<>>
    /\ out1 = <<>>
    /\ out2 = <<>>
    /\ npc = "input"

\* the server under concurrent clients of POST /predict
InitSvc == InitNormaliser /\ InitService(MaxRequests, StdoutEncodings)

NextSvc ==
    \E t \in Threads :
        \/ Receive(t, SvcBodies)
        \/ Serve(t)

SpecSvc == InitSvc /\ [][NextSvc]_vars

\* the server answering one request, POST /predict or GET /health
InitHttp == InitNormaliser /\ InitService(1, StdoutEncodings)

NextHttp ==
    \E t \in Threads :
        \/ Receive(t, HttpBodies)
        \/ ReceiveHealth(t)
        \/ Serve(t)

SpecHttp == InitHttp /\ [][NextHttp]_vars

(***************************************************************************)
(* Inputs of the normaliser                                                *)
(***************************************************************************)
Chunks ==
    << Str(<<"x">>), Str(<<"1">>), Str(<<".">>), Str(<<" ">>), Str(<<"\n">>),
       Str(<<"W","W","W",".","x">>),
       Str(<<"h","t","t","p",":","/","/","x">>),
       <<CAPITAL_SIGMA, NBSP>>, <<NUL>> >>

Inputs == {Flatten([i \in 1..Len(s) |-> Chunks[s[i]]]) : s \in SeqsUpTo(1..Len(Chunks), MaxChunks)}

VT == 11    \* '\x0b', the vertical tab

HeaderChars == {ord("x"), SPACE, LF, CR, VT}
HeaderInputs == SeqsUpTo(HeaderChars, MaxHdrLen)

(***************************************************************************)
(* The normaliser's caller                                                 *)
(***************************************************************************)
InitNorm ==
    /\ cfg \in Configs
    /\ text \in Inputs
    /\ hdr = <<>>
    /\ out1 = <<>>
    /\ out2 = <<>>
    /\ npc = "input"
    /\ InitService(0, {"utf-8"})

\* EmailPreprocessor(**cfg).transform([text])
Transform ==
    /\ npc = "input"
    /\ out1' = transform(cfg, text)
    /\ npc' = "once"
    /\ UNCHANGED <<cfg, text, hdr, out2, svars>>

\* EmailPreprocessor(**cfg).transform(transform([text]))
TransformAgain ==
    /\ npc = "once"
    /\ out2' = transform(cfg, out1)
    /\ npc' = "twice"
    /\ UNCHANGED <<cfg, text, hdr, out1, svars>>

NextNorm == Transform \/ TransformAgain

SpecNorm == InitNorm /\ [][NextNorm]_vars

InitHeaders ==
    /\ cfg = DefaultConfig
    /\ text \in HeaderInputs
    /\ hdr = <<>>
    /\ out1 = <<>>
    /\ out2 = <<>>
    /\ npc = "input"
    /\ InitService(0, {"utf-8"})

\* EmailPreprocessor()._strip_headers(text)
StripHeaders ==
    /\ npc = "input"
    /\ hdr' = _strip_headers(text)
    /\ npc' = "stripped"
    /\ UNCHANGED <<cfg, text, out1, out2, svars>>

NextHeaders == StripHeaders

SpecHeaders == InitHeaders /\ [][NextHeaders]_vars

(***************************************************************************)
(* Properties of the normaliser                                            *)
(***************************************************************************)
Count(toks, tok) == Cardinality({i \in 1..Len(toks) : toks[i] = tok})

\* the leftmost, non-overlapping matches of the URL pattern in t from i on
RECURSIVE CountUrlRuns(_, _)
CountUrlRuns(t, i) ==
    IF i > Len(t) THEN 0
    ELSE IF UrlMatchLen(t, i) > 0 THEN 1 + CountUrlRuns(t, i + UrlMatchLen(t, i))
    ELSE CountUrlRuns(t, i + 1)

HasUrlRun(t) == \E i \in 1..Len(t) : UrlMatchLen(t, i) > 0

\* C2: transform is idempotent: under every configuration a second
\* transform of the output of the first gives that output again.
C2_Idempotent == npc = "twice" => out2 = out1

\* C7 as stated: under the default configuration an input holding a URL run
\* yields the token url and nothing of the run.
C7_LowercaseUrlToken ==
    (npc = "once" /\ cfg = DefaultConfig /\ HasUrlRun(text))
        => /\ Str(<<"u", "r", "l">>) \in Range(split(out1))
           /\ ~HasUrlRun(out1)

\* C7 as amended: under the default configuration the output holds the
\* upper-case token URL once for every run of the header-stripped,
\* lowercased text, and no run is left in the output.
C7_UrlTokenPerRun ==
    (npc = "once" /\ cfg = DefaultConfig)
        => /\ Count(split(out1), Str(<<"U", "R", "L">>))
                = CountUrlRuns(lower(_strip_headers(text)), 1)
           /\ ~HasUrlRun(out1)

\* two runs, one of them in upper case in the input, both replaced
C7_Witness ==
    /\ npc = "once"
    /\ cfg = DefaultConfig
    /\ CountUrlRuns(lower(_strip_headers(text)), 1) = 2
    /\ CountUrlRuns(text, 1) = 1
    /\ split(out1) = << Str(<<"U", "R", "L">>), Str(<<"U", "R", "L">>) >>

\* C10: the output of transform has no leading or trailing whitespace, no
\* whitespace character but the space, never two spaces in a row, and is
\* empty for an input that is empty or all whitespace.
C10_WhitespaceNormalForm ==
    npc = "once"
        => /\ out1 # <<>> => ~IsSpace(out1[1]) /\ ~IsSpace(out1[Len(out1)])
           /\ \A i \in 1..Len(out1) : IsSpace(out1[i]) => out1[i] = SPACE
           /\ \A i \in 1..(Len(out1) - 1) : ~(out1[i] = SPACE /\ out1[i + 1] = SPACE)
           /\ (\A i \in 1..Len(text) : IsSpace(text[i])) => out1 = <<>>

(***************************************************************************)
(* Properties of _strip_headers                                            *)
(***************************************************************************)
\* the end (exclusive) of the run of spaces and tabs starting at i
RECURSIVE BlankEnd(_, _)
BlankEnd(t, i) ==
    IF i > Len(t) \/ t[i] \notin {SPACE, ord("\t")} THEN i ELSE BlankEnd(t, i + 1)

\* a line starts at i, after a line ending, holds only spaces or tabs and is
\* itself ended by \n or \r\n
BlankLineAt(t, i) ==
    /\ i >= 2
    /\ t[i - 1] = LF
    /\ NewlineLen(t, BlankEnd(t, i)) > 0

AfterBlankLine(t, i) == Suffix(t, BlankEnd(t, i) + NewlineLen(t, BlankEnd(t, i)))

\* C9 as stated: the cut is at the first line holding only whitespace
\* (zero or more spaces or tabs).
C9_WhitespaceLineCuts ==
    npc = "stripped"
        => LET B == {i \in 1..(Len(text) + 1) : BlankLineAt(text, i)}
           IN hdr = (IF B = {} THEN text ELSE AfterBlankLine(text, Min(B)))

\* the four spellings of an empty line: two line endings in a row
EmptyLineSeps ==
    { <<LF, LF>>, <<LF, CR, LF>>, <<CR, LF, LF>>, <<CR, LF, CR, LF>> }

\* C9 as amended: the cut is at the first empty line only, two line endings
\* (\n or \r\n) with nothing between them; the result is the text after
\* it, and the text is unchanged when there is none.
C9_EmptyLineCuts ==
    npc = "stripped"
        => LET S == {p \in (1..Len(text)) \X EmptyLineSeps : LitAt(text, p[1], p[2])}
           IN IF S = {} THEN hdr = text
              ELSE \E p \in S :
                      /\ \A q \in S : p[1] <= q[1]
                      /\ hdr = Suffix(text, p[1] + Len(p[2]))

\* the cut was made and a later empty line was left in place
C9_Witness ==
    /\ npc = "stripped"
    /\ hdr # text
    /\ HeaderSepAt(hdr) # {}

(***************************************************************************)
(* Properties of the prediction service                                    *)
(***************************************************************************)
Answered(t) == th[t].pc = "done" /\ th[t].route = "predict" /\ th[t].resp.status = 200

\* the keyword label as the specification words it: the number of distinct
\* listed phrases present in the lowercased text, against the threshold 3
KeywordLabel(t) ==
    IF Cardinality({kw \in Range(scam_keywords) : Contains(lower(t), kw)}) >= 3
    THEN "Spam" ELSE "Not Spam"

\* C1: joblib.load is executed at most once in the process and every caller
\* of load_model gets the same cached artifact instance.
C1_LoadedAtMostOnce ==
    /\ loads <= 1
    /\ \A t, u \in Threads :
          (th[t].model # NoModel /\ th[u].model # NoModel) => th[t].model = th[u].model

\* C3: with no artifact available, a valid predict request is answered (it
\* never fails) with confidence 0.85 and the label "Spam" exactly when at
\* least 3 distinct listed phrases occur in the lowercased text.
C3_KeywordFallback ==
    \A t \in Threads :
        (th[t].pc = "done" /\ th[t].route = "predict"
            /\ validate(th[t].body).status = 200 /\ _model = NoModel)
        => /\ th[t].resp.status = 200
           /\ th[t].resp.via = "keywords"
           /\ th[t].resp.conf = 85
           /\ th[t].resp.label = KeywordLabel(th[t].text)

IsBadBody(b) ==
    \/ b.kind \in {"missing", "empty", "nokey"}
    \/ b.kind = "text" /\ Len(strip(b.email_text)) < 10

IsGoodBody(b) == b.kind = "text" /\ Len(strip(b.email_text)) >= 10

\* C4: a POST /predict whose body is missing, or whose email_text is empty
\* after trimming or shorter than 10 characters, is answered 400 without the
\* classifier being invoked; one with at least 10 characters after trimming
\* is answered 200 with a prediction in {"Spam", "Not Spam"} and a confidence.
C4_Validation ==
    \A t \in Threads :
        th[t].route = "predict"
        => /\ IsBadBody(th[t].body) => th[t].pc \in {"validate", "done"}
           /\ (th[t].pc = "done" /\ IsBadBody(th[t].body))
                => th[t].resp.status = 400 /\ th[t].resp.via = "none"
           /\ (th[t].pc = "done" /\ IsGoodBody(th[t].body))
                => /\ th[t].resp.status = 200
                   /\ th[t].resp.label \in {"Spam", "Not Spam"}
                   /\ th[t].resp.conf \in 0..100
                   /\ th[t].resp.via \in {"proba", "predict", "keywords"}

\* C5: once a load has failed, no request that arrives later attempts the
\* load again and every later predict is answered by the keyword heuristic
\* with confidence 0.85.
C5_FallbackForGood ==
    \A t \in Threads :
        th[t].afterFail
        => /\ th[t].pc \notin {"lm_exists", "lm_load", "lm_flag", "lm_return"}
           /\ Answered(t)
                => /\ th[t].resp.via = "keywords"
                   /\ th[t].resp.conf = 85
                   /\ th[t].resp.label = KeywordLabel(th[t].text)

\* C6: a request during which predict_proba faults is answered, without an
\* error, with the keyword-heuristic label and confidence 0.85.
C6_FaultGivesKeywordLabel ==
    \A t \in Threads :
        (th[t].pc = "done" /\ th[t].faulted)
        => /\ th[t].resp.status = 200
           /\ th[t].resp.conf = 85
           /\ th[t].resp.via = "keywords"
           /\ th[t].resp.label = KeywordLabel(th[t].text)

\* C8: an answer from predict_proba carries the class of the strictly higher
\* probability and that probability; on equal probabilities it carries
\* "Not Spam" (index 0) and that probability.
C8_ArgmaxLowestIndexWins ==
    \A t \in Threads :
        (th[t].pc = "done" /\ th[t].resp.via = "proba")
        => LET p == th[t].proba
           IN /\ p[1] = p[2] => th[t].resp.label = "Not Spam" /\ th[t].resp.conf = p[1]
              /\ p[2] > p[1] => th[t].resp.label = "Spam" /\ th[t].resp.conf = p[2]
              /\ p[1] > p[2] => th[t].resp.label = "Not Spam" /\ th[t].resp.conf = p[1]

\* the tie: both probabilities 0.5
C8_Witness ==
    \E t \in Threads :
        /\ th[t].pc = "done"
        /\ th[t].resp.via = "proba"
        /\ th[t].proba = <<50, 50>>
        /\ th[t].resp.label = "Not Spam"

====
